---- MODULE Spec2Model ----
(***************************************************************************)
(* Model of bench-rs's Bencher (src/src/bencher.rs): calibration and       *)
(* sampling of a synchronous operation (iter / bench_once) and of an       *)
(* asynchronous one (async_iter), the memory window (reset_mem /           *)
(* get_mem_peak over the two shared atomics of mem_track), and finish      *)
(* with the default report.                                                *)
(*                                                                         *)
(* Time: the code reads an Instant only through elapsed(), so an Instant   *)
(* is represented by its age, the value elapsed() would return.            *)
(*                                                                         *)
(* TimingFuture, Stats and the allocation tracker live in other files of   *)
(* the crate; they are modelled from their documented behaviour.           *)
(***************************************************************************)
EXTENDS Integers, Sequences, FiniteSets

VARIABLES
    count,      \* Bencher.count
    steps,      \* Bencher.steps : Vec<Step>, Step = [time, mem]
    n,          \* Bencher.n
    poll,       \* Bencher.poll
    counter,    \* mem_track.0, the tracker's "current allocated"
    peak,       \* mem_track.1, the tracker's "peak allocated"
    path,       \* which entry point runs: "none", "iter", "async_iter"
    phase,      \* "cal" during calibration, "sample" during the batches
    pc,         \* position of the harness thread
    single,     \* local `single` of iter / async_iter (-1 before it is set)
    i,          \* index of the sampling batch (outer loop)
    j,          \* index inside the batch (inner loop)
    elapsed,    \* age of `now` in bench_once / `mtime` in async_iter
    polls,      \* local Vec `polls` of async_iter
    tf,         \* the TimingFuture being awaited, or NoFuture
    stats,      \* <<the Stats computed by finish>>, or NoStats
    report,     \* <<what default_format printed>>, or NoReport
    err,        \* "none", or the panic that ended the run
    window      \* history: operations finished since this run's last
                \* completed reset_mem; -1 while it has completed none

vars == <<count, steps, n, poll, counter, peak, path, phase, pc, single, i, j,
          elapsed, polls, tf, stats, report, err, window>>

----------------------------------------------------------------------------
(* Bounds of the exploration *)

MaxCount == 2
MaxN == 2
MaxPolls == 2
MaxMem == 2

(* 1_000_000ns : 1ms *)
TargetNs == 1000000

(* Durations (ns) one call of the operation may take in iter: the          *)
(* calibration call, and a call inside a batch.                            *)
Singles == {0, 1, 3, 250000, 300000, 400000, 999999, 1000000, 1000001, 2000000}
OpTimes == {0, 3}

(* Durations (ns) one resumption of a wrapped operation may take in        *)
(* async_iter: of the calibration operation, and of a sampled one.         *)
PollSingles == {0, 300000, 400000, 1000001}
PollOpTimes == {3}

(* The resumptions a wrapped operation needs to complete; Never: it never  *)
(* completes.                                                              *)
Never == 0
Needs == {Never, 1, 2}

NoFuture == [need |-> -1, poll |-> 0, started |-> FALSE, age |-> 0]
NoStats == <<>>
NoReport == <<>>

Max(a, b) == IF a >= b THEN a ELSE b
Min(a, b) == IF a <= b THEN a ELSE b

RECURSIVE SumSeq(_)
SumSeq(s) == IF s = <<>> THEN 0 ELSE Head(s) + SumSeq(Tail(s))

CallTimes(ph) == IF ph = "cal" THEN Singles ELSE OpTimes
PollTimes(ph) == IF ph = "cal" THEN PollSingles ELSE PollOpTimes

----------------------------------------------------------------------------
(* Bencher::new: steps empty, n = 0, poll = 0. count is any usize; the     *)
(* counters hold whatever the process has allocated so far.                *)

Init ==
    /\ count \in 0 .. MaxCount
    /\ steps = <<>>
    /\ n = 0
    /\ poll = 0
    /\ counter \in 0 .. MaxMem
    /\ peak \in counter .. MaxMem
    /\ path = "none"
    /\ phase = "cal"
    /\ pc = "new"
    /\ single = -1
    /\ i = 0
    /\ j = 0
    /\ elapsed = 0
    /\ polls = <<>>
    /\ tf = NoFuture
    /\ stats = NoStats
    /\ report = NoReport
    /\ err = "none"
    /\ window = -1

----------------------------------------------------------------------------
(* The allocation tracker: every allocation adds to current and raises     *)
(* peak to the maximum of current; every deallocation subtracts. The       *)
(* counters are process-wide atomics, so these steps interleave with the   *)
(* harness at any point while a benchmark runs.                            *)

Running == pc \notin {"new", "done", "finished", "panic"}

TrackAlloc ==
    /\ Running
    /\ \E b \in 1 .. MaxMem :
          /\ counter + b <= MaxMem
          /\ counter' = counter + b
          /\ peak' = Max(peak, counter + b)
    /\ UNCHANGED <<window, count, steps, n, poll, path, phase, pc, single, i, j,
                   elapsed, polls, tf, stats, report, err>>

TrackDealloc ==
    /\ Running
    /\ \E b \in 1 .. MaxMem :
          /\ b <= counter
          /\ counter' = counter - b
    /\ UNCHANGED <<window, count, steps, n, poll, peak, path, phase, pc, single, i, j,
                   elapsed, polls, tf, stats, report, err>>

----------------------------------------------------------------------------
(* reset_mem: two separate SeqCst stores, counter first, then peak. *)

AfterReset == IF path = "iter" THEN "bench_once_loop" ELSE "async_spawn"

ResetMemCounter ==
    /\ pc = "reset_mem"
    /\ counter' = 0
    /\ pc' = "reset_mem_peak"
    /\ UNCHANGED <<window, count, steps, n, poll, peak, path, phase, single, i, j,
                   elapsed, polls, tf, stats, report, err>>

ResetMemPeak ==
    /\ pc = "reset_mem_peak"
    /\ peak' = 0
    /\ pc' = AfterReset
    /\ window' = 0
    /\ UNCHANGED <<count, steps, n, poll, counter, path, phase, single, i, j,
                   elapsed, polls, tf, stats, report, err>>

(* get_mem_peak: one SeqCst load of peak. *)
GetMemPeak == peak

----------------------------------------------------------------------------
(* Calibration: n = (1_000_000 / single.max(1)).max(1) *)

(* Mutant: the floor at 1 is forgotten. *)
CalibrateNoFloor(s) == TargetNs \div Max(s, 1)

Calibrate(s) == Max(TargetNs \div Max(s, 1), 1)

(* The n of the bench_once call in progress: 1 for calibration, self.n for *)
(* a sampling batch.                                                       *)
BatchN == IF phase = "cal" THEN 1 ELSE n

(* One more operation has finished inside the current window, if any. *)
Finished(w) == IF w >= 0 THEN w + 1 ELSE w

----------------------------------------------------------------------------
(* iter and bench_once *)

(* iter is entered; bench_once(f, 1) takes `now` and calls reset_mem. *)
Iter ==
    /\ pc = "new"
    /\ path' = "iter"
    /\ phase' = "cal"
    /\ elapsed' = 0
    /\ j' = 0
    /\ pc' = "reset_mem"
    /\ UNCHANGED <<window, count, steps, n, poll, counter, peak, single, i, polls, tf,
                   stats, report, err>>

(* for _ in 0..n { f() } : one call of the operation, which takes d. *)
BenchOnceCall ==
    /\ pc = "bench_once_loop"
    /\ j < BatchN
    /\ \E d \in CallTimes(phase) : elapsed' = elapsed + d
    /\ j' = j + 1
    /\ window' = Finished(window)
    /\ UNCHANGED <<count, steps, n, poll, counter, peak, path, phase, pc, single,
                   i, polls, tf, stats, report, err>>

(* bench_once returns (now.elapsed(), get_mem_peak()) from the calibration *)
(* call; iter sets n and enters the sampling loop.                         *)
IterCalibrated ==
    /\ pc = "bench_once_loop"
    /\ phase = "cal"
    /\ j = BatchN
    /\ single' = elapsed
    /\ n' = Calibrate(elapsed)
    /\ phase' = "sample"
    /\ i' = 0
    /\ pc' = "iter_loop"
    /\ UNCHANGED <<window, count, steps, poll, counter, peak, path, j, elapsed, polls, tf,
                   stats, report, err>>

(* (0..count).for_each: the next bench_once(f, self.n), or iter returns. *)
IterNext ==
    /\ pc = "iter_loop"
    /\ IF i < count
          THEN /\ n <= MaxN
               /\ elapsed' = 0
               /\ j' = 0
               /\ pc' = "reset_mem"
          ELSE /\ pc' = "done"
               /\ UNCHANGED <<elapsed, j>>
    /\ UNCHANGED <<window, count, steps, n, poll, counter, peak, path, phase, single, i,
                   polls, tf, stats, report, err>>

(* Mutant: a sample whose time is 0 is discarded as an outlier. *)
IterPushDropsZero ==
    /\ pc = "bench_once_loop"
    /\ phase = "sample"
    /\ j = BatchN
    /\ n > 0
    /\ steps' = IF elapsed \div n = 0 THEN steps
                ELSE Append(steps, [time |-> elapsed \div n,
                                    mem |-> GetMemPeak \div n])
    /\ i' = i + 1
    /\ pc' = "iter_loop"
    /\ UNCHANGED <<window, count, n, poll, counter, peak, path, phase, single, j,
                   elapsed, polls, tf, stats, report, err>>

(* steps.push(Step { time: res.0 / n, mem: res.1 / n }) *)
IterPush ==
    /\ pc = "bench_once_loop"
    /\ phase = "sample"
    /\ j = BatchN
    /\ IF n = 0
          THEN /\ err' = "divide by zero: n"
               /\ pc' = "panic"
               /\ UNCHANGED <<steps, i>>
          ELSE /\ steps' = Append(steps, [time |-> elapsed \div n,
                                          mem |-> GetMemPeak \div n])
               /\ i' = i + 1
               /\ pc' = "iter_loop"
               /\ UNCHANGED err
    /\ UNCHANGED <<window, count, n, poll, counter, peak, path, phase, single, j, elapsed,
                   polls, tf, stats, report>>

----------------------------------------------------------------------------
(* TimingFuture: created fresh for one operation, which needs `need`       *)
(* resumptions to complete. Every poll increments the counter; the first   *)
(* poll sets start; the completing poll yields elapsed_time = start's age. *)

NewTimingFuture(need) == [need |-> need, poll |-> 0, started |-> FALSE, age |-> 0]

PollTimingFuture(t, d) ==
    [t EXCEPT !.poll = t.poll + 1,
              !.started = TRUE,
              !.age = (IF t.started THEN t.age ELSE 0) + d]

Ready(t) == t.need # Never /\ t.poll = t.need

----------------------------------------------------------------------------
(* async_iter *)

(* async_iter's future is first polled: f() is called and wrapped. *)
AsyncIter ==
    /\ pc = "new"
    /\ path' = "async_iter"
    /\ phase' = "cal"
    /\ \E k \in Needs : tf' = NewTimingFuture(k)
    /\ pc' = "async_await"
    /\ UNCHANGED <<window, count, steps, n, poll, counter, peak, single, i, j, elapsed,
                   polls, stats, report, err>>

(* The executor resumes async_iter, which polls the wrapped operation; it  *)
(* is still pending, so async_iter suspends again. A poll takes d. (The    *)
(* polls of an operation that never completes are followed up to           *)
(* MaxPolls.)                                                              *)
AsyncPollPending ==
    /\ pc = "async_await"
    /\ tf.need = Never => tf.poll < MaxPolls
    /\ \E d \in PollTimes(phase) :
          /\ ~Ready(PollTimingFuture(tf, d))
          /\ tf' = PollTimingFuture(tf, d)
    /\ UNCHANGED <<window, count, steps, n, poll, counter, peak, path, phase, pc, single,
                   i, j, elapsed, polls, stats, report, err>>

(* The calibration operation completes: single = elapsed_time, n is set,   *)
(* polls is created empty.                                                 *)
AsyncCalibrated ==
    /\ pc = "async_await"
    /\ phase = "cal"
    /\ \E d \in PollTimes(phase) :
          /\ Ready(PollTimingFuture(tf, d))
          /\ single' = PollTimingFuture(tf, d).age
          /\ n' = Calibrate(PollTimingFuture(tf, d).age)
    /\ tf' = NoFuture
    /\ polls' = <<>>
    /\ phase' = "sample"
    /\ i' = 0
    /\ pc' = "async_loop"
    /\ window' = Finished(window)
    /\ UNCHANGED <<count, steps, poll, counter, peak, path, j, elapsed, stats,
                   report, err>>

(* for _ in 0..count: mtime = 0 and reset_mem, or the loop is over. *)
AsyncNext ==
    /\ pc = "async_loop"
    /\ IF i < count
          THEN /\ n <= MaxN
               /\ elapsed' = 0
               /\ j' = 0
               /\ pc' = "reset_mem"
          ELSE /\ pc' = "async_avg"
               /\ UNCHANGED <<elapsed, j>>
    /\ UNCHANGED <<window, count, steps, n, poll, counter, peak, path, phase, single, i,
                   polls, tf, stats, report, err>>

(* for _ in 0..n: TimingFuture::new(f()) *)
AsyncSpawn ==
    /\ pc = "async_spawn"
    /\ j < n
    /\ \E k \in Needs : tf' = NewTimingFuture(k)
    /\ pc' = "async_await"
    /\ UNCHANGED <<window, count, steps, n, poll, counter, peak, path, phase, single, i, j,
                   elapsed, polls, stats, report, err>>

(* Mutant: the resumption that completes the operation is not counted. *)
AsyncCollectMissesLast ==
    /\ pc = "async_await"
    /\ phase = "sample"
    /\ \E d \in PollTimes(phase) :
          /\ Ready(PollTimingFuture(tf, d))
          /\ elapsed' = elapsed + PollTimingFuture(tf, d).age
          /\ polls' = Append(polls, tf.poll)
    /\ tf' = NoFuture
    /\ j' = j + 1
    /\ pc' = "async_spawn"
    /\ window' = Finished(window)
    /\ UNCHANGED <<count, steps, n, poll, counter, peak, path, phase, single, i,
                   stats, report, err>>

(* A sampled operation completes: mtime += elapsed_time; polls.push(poll) *)
AsyncCollect ==
    /\ pc = "async_await"
    /\ phase = "sample"
    /\ \E d \in PollTimes(phase) :
          /\ Ready(PollTimingFuture(tf, d))
          /\ elapsed' = elapsed + PollTimingFuture(tf, d).age
          /\ polls' = Append(polls, PollTimingFuture(tf, d).poll)
    /\ tf' = NoFuture
    /\ j' = j + 1
    /\ pc' = "async_spawn"
    /\ window' = Finished(window)
    /\ UNCHANGED <<count, steps, n, poll, counter, peak, path, phase, single, i,
                   stats, report, err>>

(* Mutant: the Sample's mem is read from the current counter, not peak. *)
AsyncPushReadsCounter ==
    /\ pc = "async_spawn"
    /\ j = n
    /\ n > 0
    /\ steps' = Append(steps, [time |-> elapsed \div n, mem |-> counter \div n])
    /\ i' = i + 1
    /\ pc' = "async_loop"
    /\ UNCHANGED <<window, count, n, poll, counter, peak, path, phase, single, j,
                   elapsed, polls, tf, stats, report, err>>

(* steps.push(Step { time: mtime / n, mem: get_mem_peak() / n }) *)
AsyncPush ==
    /\ pc = "async_spawn"
    /\ j = n
    /\ IF n = 0
          THEN /\ err' = "divide by zero: n"
               /\ pc' = "panic"
               /\ UNCHANGED <<steps, i>>
          ELSE /\ steps' = Append(steps, [time |-> elapsed \div n,
                                          mem |-> GetMemPeak \div n])
               /\ i' = i + 1
               /\ pc' = "async_loop"
               /\ UNCHANGED err
    /\ UNCHANGED <<window, count, n, poll, counter, peak, path, phase, single, j, elapsed,
                   polls, tf, stats, report>>

(* Mutant: the sum is divided by the number of batches. *)
AsyncAveragePerBatch ==
    /\ pc = "async_avg"
    /\ count > 0
    /\ poll' = SumSeq(polls) \div count
    /\ pc' = "done"
    /\ UNCHANGED <<window, count, steps, n, counter, peak, path, phase, single, i,
                   j, elapsed, polls, tf, stats, report, err>>

(* self.poll = polls.iter().sum::<usize>() / polls.len() *)
AsyncAverage ==
    /\ pc = "async_avg"
    /\ IF Len(polls) = 0
          THEN /\ err' = "divide by zero: polls.len()"
               /\ pc' = "panic"
               /\ UNCHANGED poll
          ELSE /\ poll' = SumSeq(polls) \div Len(polls)
               /\ pc' = "done"
               /\ UNCHANGED err
    /\ UNCHANGED <<window, count, steps, n, counter, peak, path, phase, single, i, j,
                   elapsed, polls, tf, stats, report>>

----------------------------------------------------------------------------
(* Stats::from(&steps): average, minimum and maximum of each channel. *)

RECURSIVE SumTime(_)
SumTime(s) == IF s = <<>> THEN 0 ELSE Head(s).time + SumTime(Tail(s))

RECURSIVE SumMem(_)
SumMem(s) == IF s = <<>> THEN 0 ELSE Head(s).mem + SumMem(Tail(s))

RECURSIVE MinTime(_)
MinTime(s) == IF Len(s) = 1 THEN s[1].time ELSE Min(Head(s).time, MinTime(Tail(s)))

RECURSIVE MaxTime(_)
MaxTime(s) == IF Len(s) = 1 THEN s[1].time ELSE Max(Head(s).time, MaxTime(Tail(s)))

RECURSIVE MinMem(_)
MinMem(s) == IF Len(s) = 1 THEN s[1].mem ELSE Min(Head(s).mem, MinMem(Tail(s)))

RECURSIVE MaxMemOf(_)
MaxMemOf(s) == IF Len(s) = 1 THEN s[1].mem ELSE Max(Head(s).mem, MaxMemOf(Tail(s)))

StatsFrom(s) ==
    [times_average |-> SumTime(s) \div Len(s),
     times_min |-> MinTime(s),
     times_max |-> MaxTime(s),
     mem_average |-> SumMem(s) \div Len(s),
     mem_min |-> MinMem(s),
     mem_max |-> MaxMemOf(s)]

(* Mutant: the line with the average polls is printed for poll >= 0. *)
DefaultFormatAlwaysPolls(st) ==
    [times_average |-> st.times_average,
     times_spread |-> st.times_max - st.times_min,
     mem_average |-> st.mem_average,
     mem_spread |-> st.mem_max - st.mem_min,
     count |-> count,
     n |-> n,
     poll_line |-> IF poll >= 0 THEN <<poll>> ELSE <<>>]

(* default_format: the figures of the report; the line with the average    *)
(* polls is there only if poll > 0. (The throughput figure, a float, is    *)
(* left out.)                                                              *)
DefaultFormat(st) ==
    [times_average |-> st.times_average,
     times_spread |-> st.times_max - st.times_min,
     mem_average |-> st.mem_average,
     mem_spread |-> st.mem_max - st.mem_min,
     count |-> count,
     n |-> n,
     poll_line |-> IF poll > 0 THEN <<poll>> ELSE <<>>]

(* Mutant: the last Sample is left out of the statistics. *)
FinishDropsLast ==
    /\ pc \in {"done", "finished"}
    /\ Len(steps) > 0
    /\ LET used == IF Len(steps) > 1 THEN SubSeq(steps, 1, Len(steps) - 1)
                                      ELSE steps
       IN /\ stats' = <<StatsFrom(used)>>
          /\ report' = <<DefaultFormat(StatsFrom(used))>>
    /\ pc' = "finished"
    /\ UNCHANGED <<window, count, steps, n, poll, counter, peak, path, phase, single,
                   i, j, elapsed, polls, tf, err>>

(* finish, called once iter / async_iter has returned (and callable again, *)
(* as it takes &self).                                                     *)
Finish ==
    /\ pc \in {"done", "finished"}
    /\ IF Len(steps) = 0
          THEN /\ err' = "Stats::from: empty steps"
               /\ pc' = "panic"
               /\ UNCHANGED <<stats, report>>
          ELSE /\ stats' = <<StatsFrom(steps)>>
               /\ report' = <<DefaultFormat(StatsFrom(steps))>>
               /\ pc' = "finished"
               /\ UNCHANGED err
    /\ UNCHANGED <<window, count, steps, n, poll, counter, peak, path, phase, single, i, j,
                   elapsed, polls, tf>>

----------------------------------------------------------------------------

Next ==
    \/ TrackAlloc
    \/ TrackDealloc
    \/ ResetMemCounter
    \/ ResetMemPeak
    \/ Iter
    \/ BenchOnceCall
    \/ IterCalibrated
    \/ IterNext
    \/ IterPush
    \/ AsyncIter
    \/ AsyncPollPending
    \/ AsyncCalibrated
    \/ AsyncNext
    \/ AsyncSpawn
    \/ AsyncCollect
    \/ AsyncPush
    \/ AsyncAverage
    \/ Finish

Spec == Init /\ [][Next]_vars

----------------------------------------------------------------------------
(* The Statistics Aggregator on its own: finish applied to a Bencher whose *)
(* run has returned with any Sample sequence of 1 .. MaxLen Samples.       *)

MaxLen == 3
StatSamples == [time : {10, 20, 30}, mem : {50, 75, 100}]
StatSeqs == UNION {[1 .. k -> StatSamples] : k \in 1 .. MaxLen}

StatsInit ==
    /\ steps \in StatSeqs
    /\ count = Len(steps)
    /\ n = 1
    /\ poll = 0
    /\ counter = 0
    /\ peak = 0
    /\ path = "iter"
    /\ phase = "sample"
    /\ pc = "done"
    /\ single = TargetNs
    /\ i = count
    /\ j = 1
    /\ elapsed = 0
    /\ polls = <<>>
    /\ tf = NoFuture
    /\ stats = NoStats
    /\ report = NoReport
    /\ err = "none"
    /\ window = 1

SpecStats == StatsInit /\ [][Finish]_vars

----------------------------------------------------------------------------
(* Properties *)

Returned == pc \in {"done", "finished"}

IsPrefix(s, t) == Len(s) <= Len(t) /\ SubSeq(t, 1, Len(s)) = s

(* C1: with count >= 1, when iter returns steps holds exactly count        *)
(* Samples, each with time >= 0, and n >= 1; during the sampling one       *)
(* Sample has been appended per finished batch, and steps only ever grows  *)
(* at its end (run order, nothing discarded).                              *)
C1_IterSamples ==
    /\ [](path = "iter" /\ count >= 1 /\ Returned =>
            /\ Len(steps) = count
            /\ n >= 1
            /\ \A k \in 1 .. Len(steps) : steps[k].time >= 0)
    /\ [](path = "iter" /\ phase = "sample" /\ pc # "panic" => Len(steps) = i)
    /\ [][path = "iter" => IsPrefix(steps, steps') /\ Len(steps') <= Len(steps) + 1]_vars

C1_Witness ==
    /\ path = "iter"
    /\ pc = "done"
    /\ count = 2
    /\ n = 2
    /\ Len(steps) = 2
    /\ steps[1].time = 0
    /\ steps[2].time = 3

(* C2: in iter and in async_iter, once calibration has set single, n is    *)
(* the integer quotient of 1_000_000 by max(single, 1), floored at 1:      *)
(* n >= 1, n = 1 when single exceeds 1_000_000, and otherwise              *)
(* n * s <= 1_000_000 < (n + 1) * s for s = max(single, 1). It stays so    *)
(* during the sampling, and no division by n panics.                       *)
C2_Calibration ==
    /\ err # "divide by zero: n"
    /\ single = -1 => n = 0
    /\ single # -1 =>
          LET s == IF single = 0 THEN 1 ELSE single IN
          /\ n >= 1
          /\ s > TargetNs => n = 1
          /\ s <= TargetNs => n * s <= TargetNs /\ TargetNs < (n + 1) * s

C2_Witness ==
    /\ path = "async_iter"
    /\ single = 400000
    /\ n = 2
    /\ i = 2
    /\ pc = "async_avg"

(* C3: with count >= 1, once async_iter has completed, polls holds one     *)
(* resumption count per sampled operation, count * n of them (the          *)
(* calibration operation's is not among them), and poll is their sum       *)
(* divided by count * n.                                                   *)
C3_AveragePolls ==
    path = "async_iter" /\ count >= 1 /\ Returned =>
        /\ Len(polls) = count * n
        /\ poll = SumSeq(polls) \div (count * n)

C3_Witness ==
    /\ path = "async_iter"
    /\ pc = "done"
    /\ count = 2
    /\ n = 2
    /\ polls = <<1, 2, 2, 2>>
    /\ poll = 1

(* C4: between a completed reset_mem and the following get_mem_peak,      *)
(* peak >= current >= 0 (reset_mem zeroing both counters as one step).     *)
C4_MemoryWindow ==
    window >= 0 /\ pc \in {"bench_once_loop", "async_spawn", "async_await"} =>
        peak >= counter /\ counter >= 0

(* C5: whenever finish computes Statistics steps is non-empty, and with    *)
(* count >= 1 no operation of the harness panics.                          *)
C5_FinishHasSample ==
    /\ err # "Stats::from: empty steps"
    /\ count >= 1 => pc # "panic"

(* C6: iter leaves poll at 0; every default report shows the configured    *)
(* count and has the line with the average polls exactly when poll > 0;    *)
(* so the report after iter + finish has no such line.                     *)
C6_SyncNoPolls ==
    /\ path = "iter" => poll = 0
    /\ report # NoReport =>
          /\ report[1].count = count
          /\ report[1].poll_line # <<>> <=> poll > 0
          /\ poll > 0 => report[1].poll_line = <<poll>>
    /\ path = "iter" /\ report # NoReport => report[1].poll_line = <<>>

C6_Witness ==
    /\ path = "iter"
    /\ pc = "finished"
    /\ count = 2
    /\ report # NoReport
    /\ report[1].count = 2
    /\ report[1].poll_line = <<>>

(* C7: every resumption of a wrapped operation, completing or not, adds 1  *)
(* to its counter; start is set by the first resumption and not set again; *)
(* the operation completes on its need-th resumption with counter = need   *)
(* >= 1, and that counter is what async_iter collects in polls.            *)
C7_Resumptions ==
    /\ [](tf.started <=> tf.poll >= 1)
    /\ [][pc = "async_await" /\ pc' = "async_await" /\ tf' # tf =>
            /\ tf'.poll = tf.poll + 1
            /\ tf'.need = tf.need
            /\ tf.started => tf'.age >= tf.age]_vars
    /\ [][pc = "async_await" /\ pc' # "async_await" =>
            /\ tf.need >= 1
            /\ tf.poll + 1 = tf.need
            /\ phase = "sample" => polls' = Append(polls, tf.need)]_vars

C7_Witness ==
    /\ path = "async_iter"
    /\ pc = "async_spawn"
    /\ polls = <<1, 2>>
    /\ elapsed = 9

(* C8: for every non-empty Sample sequence the Statistics hold, per        *)
(* channel, the floor of the mean, the minimum and the maximum (so         *)
(* min <= average <= max); the sequence of the example gives 20/10/30 and  *)
(* 75/50/100; finish leaves steps alone and gives the same again.          *)
StatsExample ==
    <<[time |-> 10, mem |-> 100], [time |-> 20, mem |-> 50], [time |-> 30, mem |-> 75]>>

C8_Statistics ==
    /\ [](stats # NoStats =>
            LET st == stats[1]
                len == Len(steps)
                idx == 1 .. Len(steps)
            IN /\ len >= 1
               /\ len * st.times_average <= SumTime(steps)
               /\ SumTime(steps) < len * (st.times_average + 1)
               /\ \E k \in idx : steps[k].time = st.times_min
               /\ \A k \in idx : steps[k].time >= st.times_min
               /\ \E k \in idx : steps[k].time = st.times_max
               /\ \A k \in idx : steps[k].time <= st.times_max
               /\ len * st.mem_average <= SumMem(steps)
               /\ SumMem(steps) < len * (st.mem_average + 1)
               /\ \E k \in idx : steps[k].mem = st.mem_min
               /\ \A k \in idx : steps[k].mem >= st.mem_min
               /\ \E k \in idx : steps[k].mem = st.mem_max
               /\ \A k \in idx : steps[k].mem <= st.mem_max
               /\ st.times_min <= st.times_average
               /\ st.times_average <= st.times_max
               /\ st.mem_min <= st.mem_average
               /\ st.mem_average <= st.mem_max
               /\ steps = StatsExample =>
                     st = [times_average |-> 20, times_min |-> 10, times_max |-> 30,
                           mem_average |-> 75, mem_min |-> 50, mem_max |-> 100])
    /\ [][steps' = steps /\ (stats # NoStats => stats' = stats)]_vars

C8_Witness ==
    /\ steps = StatsExample
    /\ pc = "finished"
    /\ stats # NoStats
    /\ stats[1].times_average = 20
    /\ stats[1].mem_min = 50

(* C9 as stated: in both paths, whenever an operation of the calibration   *)
(* or of a batch runs, a reset_mem has completed before the first of them  *)
(* and none since (window = j), and the last Sample's time is the batch's  *)
(* elapsed time / n.                                                       *)
OpRunning == (pc = "bench_once_loop" /\ j < BatchN) \/ pc = "async_await"

C9_AsStated ==
    /\ OpRunning => window = j
    /\ pc \in {"iter_loop", "async_loop"} /\ i >= 1 => steps[i].time = elapsed \div n

(* C9, amended: the same for iter's calibration and for every sampling     *)
(* batch of both paths; async_iter's calibration operation runs with no    *)
(* reset_mem before it. A Sample is recorded once the window holds the     *)
(* batch's n operations, with time = elapsed / n and mem = peak / n for    *)
(* the peak read at that moment.                                           *)
C9_Windows ==
    /\ [](OpRunning /\ ~(path = "async_iter" /\ phase = "cal") => window = j)
    /\ [](path = "async_iter" /\ phase = "cal" => window = -1)
    /\ [][Len(steps') > Len(steps) =>
            /\ window = n
            /\ j = n
            /\ steps' = Append(steps, [time |-> elapsed \div n,
                                       mem |-> peak \div n])]_vars

C9_Witness ==
    /\ path = "async_iter"
    /\ pc = "async_loop"
    /\ n = 2
    /\ i = 1
    /\ window = 2
    /\ steps = <<[time |-> 4, mem |-> 1]>>

(* C10: async_iter ends only by completing, after the calibration          *)
(* operation and count * n sampled ones, awaited one at a time, with       *)
(* count Samples recorded.                                                 *)
C10_AsyncCompletes ==
    path = "async_iter" =>
        /\ pc # "panic"
        /\ tf # NoFuture <=> pc = "async_await"
        /\ Returned => Len(polls) = count * n /\ Len(steps) = count

====
